---------------------------- MODULE Spec2Model ----------------------------
(***************************************************************************)
(* A model of the touch utility of rust-coreutils:                         *)
(*   - the argument lexer        (src/src/arglex/lib.rs)                   *)
(*   - the option interpreter    (src/src/touch/args.rs)                   *)
(*   - the compact timestamp parser, the flag and timestamp resolution in  *)
(*     main, and the touch executor (src/src/touch.rs)                     *)
(* Strings are sequences of one-character strings, so that slicing,        *)
(* prefix tests and searches are computed as the code computes them.       *)
(* Rust's Option<T> is a sequence of length 0 (None) or 1 (Some).          *)
(***************************************************************************)
EXTENDS Integers, Sequences, FiniteSets, TLC

VARIABLES
    \* ---- lexer and option interpreter (arglex/lib.rs, touch/args.rs)
    raw_args,      \* the raw command line handed to parse
    lex_i,         \* number of raw arguments the loop of lex has consumed
    delimited,     \* lex's flag: a bare "--" has been seen
    args,          \* the token vector lex builds, then parse iterates
    cursor,        \* number of tokens parse's iterator has yielded
    arg_struct,    \* the Args record parse fills
    parse_pc,      \* "lex" | "parse" | "ok" | "err" | "exit"
    why,           \* ArgError.why when parse_pc = "err"
    \* ---- compact timestamp parser (touch.rs, parse_timestamp)
    timestamp,     \* the string handed to parse_timestamp
    now_year,      \* Local::today().year()
    ts_pc,         \* "start" | "parsed" | "done"
    ts_fields,     \* the integers parsed from the slices
    ts_result,     \* Ok(date-time) | Err(reason) | Panic
    \* ---- main and touch (touch.rs)
    matches,       \* what clap hands to main: the options and the FILE list
    env,           \* the host: clock, zone conversion, stat of the reference
    fs,            \* the file system: path -> node
    main_pc,       \* "flags" | "times" | "files" | "touch" | "done"
    change_flags,  \* change_access_time, change_modification_time
    times,         \* accessed_time, modified_time
    consulted,     \* the time sources main has parsed or read so far
    file_i,        \* number of FILE arguments the loop has handed to touch
    calls,         \* the utimensat calls made so far, in order
    main_result    \* "running" | Ok | Err(message) | panic

argVars == <<raw_args, lex_i, delimited, args, cursor, arg_struct, parse_pc, why>>
stampVars == <<timestamp, now_year, ts_pc, ts_fields, ts_result>>
mainVars ==
    <<matches, env, fs, main_pc, change_flags, times, consulted, file_i,
      calls, main_result>>
vars == <<argVars, stampVars, mainVars>>

---------------------------------------------------------------------------
(* Option<T> *)
None == <<>>
Some(x) == <<x>>
is_some(o) == Len(o) = 1
unwrap(o) == o[1]

(* Rust's s[a..b] on an ASCII string, 0-based and end-exclusive *)
Slice(s, a, b) == SubSeq(s, a + 1, b)
SliceFrom(s, a) == SubSeq(s, a + 1, Len(s))

starts_with(s, p) == Len(s) >= Len(p) /\ SubSeq(s, 1, Len(p)) = p

(* str::find(char): the 0-based index of the first occurrence *)
find(s, c) ==
    IF \E i \in 1..Len(s) : s[i] = c
    THEN Some((CHOOSE i \in 1..Len(s) :
                   s[i] = c /\ \A j \in 1..(i - 1) : s[j] # c) - 1)
    ELSE None

---------------------------------------------------------------------------
(* arglex: enum Arg and its Display *)
Positional(t) == [kind |-> "Positional", text |-> t]
Short(t) == [kind |-> "Short", text |-> t]
Long(t) == [kind |-> "Long", text |-> t]

Display(arg) ==
    CASE arg.kind = "Positional" -> arg.text
      [] arg.kind = "Short" -> <<"-">> \o arg.text
      [] arg.kind = "Long" -> <<"-", "-">> \o arg.text

(* A plausible slip: the bare "--" does not set the flag. *)
arg_of_forgets_delimiter(raw_arg, delim) ==
    IF delim
    THEN [arg |-> Positional(raw_arg), rest |-> None, delimited |-> delim]
    ELSE IF starts_with(raw_arg, <<"-", "-">>)
    THEN IF Len(raw_arg) = 2
         THEN [arg |-> Positional(raw_arg), rest |-> None, delimited |-> delim]
         ELSE IF is_some(find(raw_arg, "="))
         THEN LET i == unwrap(find(raw_arg, "="))
              IN  [arg |-> Long(Slice(raw_arg, 2, i)),
                   rest |-> Some(SliceFrom(raw_arg, i + 1)),
                   delimited |-> delim]
         ELSE [arg |-> Long(SliceFrom(raw_arg, 2)), rest |-> None,
               delimited |-> delim]
    ELSE IF starts_with(raw_arg, <<"-">>)
    THEN IF Len(raw_arg) = 1
         THEN [arg |-> Positional(raw_arg), rest |-> None, delimited |-> delim]
         ELSE [arg |-> Short(Slice(raw_arg, 1, 2)),
               rest |-> IF Len(raw_arg) > 2
                        THEN Some(SliceFrom(raw_arg, 2)) ELSE None,
               delimited |-> delim]
    ELSE [arg |-> Positional(raw_arg), rest |-> None, delimited |-> delim]

(* arg_of(raw_arg, &mut delimited): the token, the attached value if any,  *)
(* and the flag as the call leaves it.                                     *)
arg_of(raw_arg, delim) ==
    IF delim
    THEN [arg |-> Positional(raw_arg), rest |-> None, delimited |-> delim]
    ELSE IF starts_with(raw_arg, <<"-", "-">>)
    THEN IF Len(raw_arg) = 2
         THEN [arg |-> Positional(raw_arg), rest |-> None, delimited |-> TRUE]
         ELSE IF is_some(find(raw_arg, "="))
         THEN LET i == unwrap(find(raw_arg, "="))
              IN  [arg |-> Long(Slice(raw_arg, 2, i)),
                   rest |-> Some(SliceFrom(raw_arg, i + 1)),
                   delimited |-> delim]
         ELSE [arg |-> Long(SliceFrom(raw_arg, 2)), rest |-> None,
               delimited |-> delim]
    ELSE IF starts_with(raw_arg, <<"-">>)
    THEN IF Len(raw_arg) = 1
         THEN [arg |-> Positional(raw_arg), rest |-> None, delimited |-> delim]
         ELSE [arg |-> Short(Slice(raw_arg, 1, 2)),
               rest |-> IF Len(raw_arg) > 2
                        THEN Some(SliceFrom(raw_arg, 2)) ELSE None,
               delimited |-> delim]
    ELSE [arg |-> Positional(raw_arg), rest |-> None, delimited |-> delim]

---------------------------------------------------------------------------
(* touch/args.rs: the option names the match arms of parse compare with *)
opt_a == <<"a">>
opt_c == <<"c">>
opt_d == <<"d">>
opt_h == <<"h">>
opt_m == <<"m">>
opt_r == <<"r">>
opt_t == <<"t">>
opt_no_create == <<"n", "o", "-", "c", "r", "e", "a", "t", "e">>
opt_date == <<"d", "a", "t", "e">>
opt_no_dereference ==
    <<"n", "o", "-", "d", "e", "r", "e", "f", "e", "r", "e", "n", "c", "e">>
opt_reference == <<"r", "e", "f", "e", "r", "e", "n", "c", "e">>
opt_time == <<"t", "i", "m", "e">>
opt_version == <<"v", "e", "r", "s", "i", "o", "n">>
opt_help == <<"h", "e", "l", "p">>
delimiter == <<"-", "-">>

(* Args::new() *)
Args_new ==
    [access |-> FALSE, no_create |-> FALSE, date |-> None,
     no_dereference |-> FALSE, modification |-> FALSE, reference |-> None,
     timestamp |-> None, time |-> None, files |-> <<>>]

missing_argument == <<"An argument must be supplied">>
unknown_argument(arg) == <<"unknown argument ">> \o Display(arg)

(* A plausible slip: the value is read without advancing the iterator, so  *)
(* the outer loop meets the value again.                                   *)
get_arg_to_peeks(toks, cur) ==
    IF cur < Len(toks) /\ toks[cur + 1].kind = "Positional"
    THEN [ok |-> TRUE, value |-> toks[cur + 1].text, cursor |-> cur]
    ELSE [ok |-> FALSE, value |-> <<>>, cursor |-> cur]

(* get_arg_to(&mut args): args.next() always advances the iterator (when   *)
(* it is not exhausted); only a Positional is accepted as the value.       *)
get_arg_to(toks, cur) ==
    IF cur < Len(toks)
    THEN IF toks[cur + 1].kind = "Positional"
         THEN [ok |-> TRUE, value |-> toks[cur + 1].text, cursor |-> cur + 1]
         ELSE [ok |-> FALSE, value |-> <<>>, cursor |-> cur + 1]
    ELSE [ok |-> FALSE, value |-> <<>>, cursor |-> cur]

(* The outcome of one arm of the match: the record, the iterator position, *)
(* and how the loop goes on.                                               *)
Continue(st, cur) ==
    [arg_struct |-> st, cursor |-> cur, pc |-> "parse", why |-> <<>>]
Fail(st, cur, msg) ==
    [arg_struct |-> st, cursor |-> cur, pc |-> "err", why |-> msg]
Exit(st, cur) ==
    [arg_struct |-> st, cursor |-> cur, pc |-> "exit", why |-> <<>>]

(* `field = Some(get_arg_to(&mut args)?)` *)
take_value(toks, cur, st, fld) ==
    LET g == get_arg_to(toks, cur)
    IN  IF g.ok
        THEN Continue([st EXCEPT ![fld] = Some(g.value)], g.cursor)
        ELSE Fail(st, g.cursor, missing_argument)

(* One iteration of `while let Some(arg) = args.next()`; cur counts the    *)
(* tokens yielded so far, arg included.                                    *)
parse_arm(arg, toks, cur, st) ==
    CASE arg.kind = "Positional" ->
           IF arg.text = delimiter
           THEN Continue(st, cur)
           ELSE Continue([st EXCEPT !.files = Append(@, arg.text)], cur)
      [] arg.kind = "Short" ->
           CASE arg.text = opt_a -> Continue([st EXCEPT !.access = TRUE], cur)
             [] arg.text = opt_c -> Continue([st EXCEPT !.no_create = TRUE], cur)
             [] arg.text = opt_d -> take_value(toks, cur, st, "date")
             [] arg.text = opt_h ->
                  Continue([st EXCEPT !.no_dereference = TRUE], cur)
             [] arg.text = opt_m ->
                  Continue([st EXCEPT !.modification = TRUE], cur)
             [] arg.text = opt_r -> take_value(toks, cur, st, "reference")
             [] arg.text = opt_t -> take_value(toks, cur, st, "timestamp")
             [] OTHER -> Fail(st, cur, unknown_argument(arg))
      [] arg.kind = "Long" ->
           CASE arg.text = opt_no_create ->
                  Continue([st EXCEPT !.no_create = TRUE], cur)
             [] arg.text = opt_date -> take_value(toks, cur, st, "date")
             [] arg.text = opt_no_dereference ->
                  Continue([st EXCEPT !.no_dereference = TRUE], cur)
             [] arg.text = opt_reference ->
                  take_value(toks, cur, st, "reference")
             [] arg.text = opt_time -> take_value(toks, cur, st, "time")
             [] arg.text = opt_version -> Exit(st, cur)
             [] arg.text = opt_help -> Exit(st, cur)
             [] OTHER -> Continue(st, cur)

---------------------------------------------------------------------------
(* Bounds and inputs of the lexer/interpreter specification *)
MaxArgs == 3

RawPool ==
    { <<"-", "-">>,                                 \* --
      <<"-">>,                                      \* -
      <<"f">>,                                      \* f
      <<"-", "a">>,                                 \* -a
      <<"-", "m">>,                                 \* -m
      <<"-", "d">>,                                 \* -d
      <<"-", "d", "M">>,                            \* -dM
      <<"-", "t">>,                                 \* -t
      <<"-", "r">>,                                 \* -r
      <<"-", "h">>,                                 \* -h
      <<"-", "-", "r", "e", "f", "e", "r", "e", "n", "c", "e">>, \* --reference
      <<"-", "x">>,                                 \* -x
      <<"-", "-", "d", "a", "t", "e", "=", "M">>,   \* --date=M
      <<"-", "-", "t", "i", "m", "e">>,             \* --time
      <<"-", "-", "t", "i", "m", "e", "s", "t", "a", "m", "p">>, \* --timestamp
      <<"-", "-", "z", "=", "=">>,                  \* --z==
      <<"-", "-", "h", "e", "l", "p">>,             \* --help
      <<"-", "-", "n", "o", "-", "c", "r", "e", "a", "t", "e">>  \* --no-create
    }

RECURSIVE SeqsUpTo(_, _)
SeqsUpTo(S, n) ==
    IF n = 0 THEN {<<>>}
    ELSE LET shorter == SeqsUpTo(S, n - 1)
         IN  shorter \cup {Append(s, x) : s \in {t \in shorter : Len(t) = n - 1},
                                          x \in S}

ArgsStart(inputs) ==
    /\ raw_args \in inputs
    /\ lex_i = 0
    /\ delimited = FALSE
    /\ args = <<>>
    /\ cursor = 0
    /\ arg_struct = Args_new
    /\ parse_pc = "lex"
    /\ why = <<>>

(* lex: one iteration of `for raw_arg in raw_args` *)
LexStep ==
    /\ parse_pc = "lex"
    /\ lex_i < Len(raw_args)
    /\ LET r == arg_of(raw_args[lex_i + 1], delimited)
       IN  /\ args' = IF is_some(r.rest)
                      THEN Append(Append(args, r.arg), Positional(unwrap(r.rest)))
                      ELSE Append(args, r.arg)
           /\ delimited' = r.delimited
    /\ lex_i' = lex_i + 1
    /\ UNCHANGED <<raw_args, cursor, arg_struct, parse_pc, why>>
    /\ UNCHANGED <<stampVars, mainVars>>

(* lex returns; parse takes the iterator and a fresh Args *)
LexReturn ==
    /\ parse_pc = "lex"
    /\ lex_i = Len(raw_args)
    /\ parse_pc' = "parse"
    /\ UNCHANGED <<raw_args, lex_i, delimited, args, cursor, arg_struct, why>>
    /\ UNCHANGED <<stampVars, mainVars>>

(* parse: one iteration of the while loop *)
ParseStep ==
    /\ parse_pc = "parse"
    /\ cursor < Len(args)
    /\ LET r == parse_arm(args[cursor + 1], args, cursor + 1, arg_struct)
       IN  /\ arg_struct' = r.arg_struct
           /\ cursor' = r.cursor
           /\ parse_pc' = r.pc
           /\ why' = r.why
    /\ UNCHANGED <<raw_args, lex_i, delimited, args>>
    /\ UNCHANGED <<stampVars, mainVars>>

(* parse: the iterator is exhausted, Ok(arg_struct) *)
ParseReturn ==
    /\ parse_pc = "parse"
    /\ cursor = Len(args)
    /\ parse_pc' = "ok"
    /\ UNCHANGED <<raw_args, lex_i, delimited, args, cursor, arg_struct, why>>
    /\ UNCHANGED <<stampVars, mainVars>>

ArgsNext == LexStep \/ LexReturn \/ ParseStep \/ ParseReturn


---------------------------------------------------------------------------
(* touch.rs: parse_timestamp, [[CC]YY]MMDDhhmm[.ss] *)

DigitValue(c) ==
    CASE c = "0" -> 0 [] c = "1" -> 1 [] c = "2" -> 2 [] c = "3" -> 3
      [] c = "4" -> 4 [] c = "5" -> 5 [] c = "6" -> 6 [] c = "7" -> 7
      [] c = "8" -> 8 [] c = "9" -> 9 [] OTHER -> -1

RECURSIVE DecimalValue(_)
DecimalValue(s) ==
    IF s = <<>> THEN 0
    ELSE DecimalValue(SubSeq(s, 1, Len(s) - 1)) * 10 + DigitValue(s[Len(s)])

AllDigits(s) == s # <<>> /\ \A i \in 1..Len(s) : DigitValue(s[i]) >= 0

(* str::parse::<u32>(): decimal digits after an optional '+'.  The slices  *)
(* of the model hold at most three characters, far from overflow.          *)
parse_u32(s) ==
    LET body == IF s # <<>> /\ s[1] = "+" THEN Tail(s) ELSE s
    IN  IF AllDigits(body) THEN Some(DecimalValue(body)) ELSE None

(* str::parse::<i32>(): decimal digits after an optional '+' or '-' *)
parse_i32(s) ==
    LET signed == s # <<>> /\ s[1] \in {"+", "-"}
        body == IF signed THEN Tail(s) ELSE s
    IN  IF AllDigits(body)
        THEN Some(IF signed /\ s[1] = "-"
                  THEN 0 - DecimalValue(body) ELSE DecimalValue(body))
        ELSE None

(* The calendar of chrono's NaiveDate (proleptic Gregorian) *)
is_leap_year(y) == y % 4 = 0 /\ (y % 100 # 0 \/ y % 400 = 0)
days_in_month(y, m) ==
    CASE m \in {1, 3, 5, 7, 8, 10, 12} -> 31
      [] m \in {4, 6, 9, 11} -> 30
      [] m = 2 -> IF is_leap_year(y) THEN 29 ELSE 28
      [] OTHER -> 0

(* NaiveDate::from_ymd_opt(y, m, d).and_then(|d| d.and_hms_opt(h, mi, s)) *)
from_ymd_and_hms_opt(y, m, d, h, mi, s) ==
    IF /\ m \in 1..12
       /\ d >= 1 /\ d <= days_in_month(y, m)
       /\ h < 24 /\ mi < 60 /\ s < 60
    THEN Some([year |-> y, month |-> m, day |-> d,
               hour |-> h, minute |-> mi, second |-> s])
    ELSE None

NoDateTime ==
    [year |-> 0, month |-> 0, day |-> 0, hour |-> 0, minute |-> 0, second |-> 0]
NoFields ==
    [century |-> 0, year |-> 0, month |-> 0, day |-> 0,
     hours |-> 0, minutes |-> 0, seconds |-> 0]

TsOk(dt) == [tag |-> "Ok", reason |-> "", dt |-> dt]
TsErr(reason) == [tag |-> "Err", reason |-> reason, dt |-> NoDateTime]
TsPanic == [tag |-> "Panic", reason |-> "", dt |-> NoDateTime]
TsNone == [tag |-> "None", reason |-> "", dt |-> NoDateTime]

has_seconds(ts) == \E i \in 1..Len(ts) : ts[i] = "."
expected_len(ts) == 8 + (IF has_seconds(ts) THEN 3 ELSE 0)
has_century(ts) == Len(ts) = expected_len(ts) + 4

(* A plausible slip: `has_century ||` left out. *)
has_year_without_century(ts) == Len(ts) = expected_len(ts) + 2

has_year(ts) == has_century(ts) \/ Len(ts) = expected_len(ts) + 2

(* The slices of lines 69-84; `rest` is what the two shifts leave. *)
rest_after_century(ts) == IF has_century(ts) THEN SliceFrom(ts, 2) ELSE ts
rest_after_year(ts) ==
    IF has_year(ts) THEN SliceFrom(rest_after_century(ts), 2)
    ELSE rest_after_century(ts)
raw_century(ts) == IF has_century(ts) THEN Slice(ts, 0, 2) ELSE <<>>
raw_year(ts) ==
    IF has_year(ts) THEN Slice(rest_after_century(ts), 0, 2) ELSE <<>>
raw_month(ts) == Slice(rest_after_year(ts), 0, 2)
raw_day(ts) == Slice(rest_after_year(ts), 2, 4)
raw_hours(ts) == Slice(rest_after_year(ts), 4, 6)
raw_minutes(ts) == Slice(rest_after_year(ts), 6, 8)
raw_seconds(ts) ==
    IF has_seconds(ts) THEN SliceFrom(rest_after_year(ts), 9) ELSE <<>>

(* Lines 56-109: the length test, then the integer parses in the order of  *)
(* the code, the first failure deciding the reason.                        *)
parse_fields(ts, nowYear) ==
    IF Len(ts) < expected_len(ts)
    THEN [ok |-> FALSE, reason |-> "timestamp is too short", f |-> NoFields]
    ELSE
    LET century == IF has_century(ts) THEN parse_i32(raw_century(ts))
                   ELSE Some((nowYear \div 100))
        year == IF has_year(ts) THEN parse_i32(raw_year(ts))
                ELSE Some(nowYear % 100)
        month == parse_u32(raw_month(ts))
        day == parse_u32(raw_day(ts))
        hours == parse_u32(raw_hours(ts))
        minutes == parse_u32(raw_minutes(ts))
        seconds == IF has_seconds(ts) THEN parse_u32(raw_seconds(ts))
                   ELSE Some(0)
        bad(reason) == [ok |-> FALSE, reason |-> reason, f |-> NoFields]
    IN  CASE ~is_some(century) -> bad("invalid century")
          [] is_some(century) /\ ~is_some(year) -> bad("invalid year")
          [] is_some(century) /\ is_some(year) /\ ~is_some(month) ->
               bad("invalid month")
          [] is_some(century) /\ is_some(year) /\ is_some(month)
               /\ ~is_some(day) -> bad("invalid day")
          [] is_some(century) /\ is_some(year) /\ is_some(month)
               /\ is_some(day) /\ ~is_some(hours) -> bad("invalid hour")
          [] is_some(century) /\ is_some(year) /\ is_some(month)
               /\ is_some(day) /\ is_some(hours) /\ ~is_some(minutes) ->
               bad("invalid minute")
          [] is_some(century) /\ is_some(year) /\ is_some(month)
               /\ is_some(day) /\ is_some(hours) /\ is_some(minutes)
               /\ ~is_some(seconds) -> bad("invalid second")
          [] OTHER ->
               [ok |-> TRUE, reason |-> "",
                f |-> [century |-> unwrap(century) * 100,
                       year |-> unwrap(year), month |-> unwrap(month),
                       day |-> unwrap(day), hours |-> unwrap(hours),
                       minutes |-> unwrap(minutes),
                       seconds |-> unwrap(seconds)]]

(* A plausible slip: the date is built without the range check. *)
construct_unchecked(f, local_result) ==
    TsOk([year |-> f.century + f.year, month |-> f.month, day |-> f.day,
          hour |-> f.hours, minute |-> f.minutes, second |-> f.seconds])

(* Lines 111-118.  Local.from_local_datetime(..).unwrap() panics unless    *)
(* the host's zone maps the date-time to a single instant; which of the    *)
(* three it is depends on the host, so local_result is an input.           *)
construct(f, local_result) ==
    LET date == from_ymd_and_hms_opt(f.century + f.year, f.month, f.day,
                                     f.hours, f.minutes, f.seconds)
    IN  IF is_some(date)
        THEN IF local_result = "Single" THEN TsOk(unwrap(date)) ELSE TsPanic
        ELSE TsErr("invalid date")

LocalResults == {"Single", "None", "Ambiguous"}

(* parse_timestamp as one function, for its caller in main *)
parse_timestamp(ts, nowYear, local_result) ==
    LET p == parse_fields(ts, nowYear)
    IN  IF p.ok THEN construct(p.f, local_result) ELSE TsErr(p.reason)

(* Inputs of the timestamp specification *)
StampPrefixes ==
    { <<>>, <<"2", "3">>, <<"2", "0", "2", "3">>, <<"1", "9", "0", "0">>,
      <<"2", "0", "0", "0">>, <<"2", "0", "1", "2">>, <<"-", "1", "2", "4">>,
      <<"9">>,
      <<"x", "x">>, <<"x", "x", "2", "3">> }
StampMonths ==
    { <<"0", "1">>, <<"0", "2">>, <<"1", "2">>, <<"1", "3">>, <<"0", "0">>,
      <<"1", "x">>, <<"+", "4">> }
StampDays == { <<"0", "1">>, <<"2", "9">>, <<"3", "0">>, <<"3", "1">>, <<"9", "9">> }
StampHours == { <<"0", "1">>, <<"1", "2">>, <<"2", "3">>, <<"2", "4">> }
StampMinutes == { <<"0", "0">>, <<"1", "2">>, <<"5", "9">>, <<"6", "0">> }
StampSuffixes ==
    { <<>>, <<".", "0", "0">>, <<".", "3", "0">>, <<".", "6", "0">>,
      <<".", "7">>, <<".", "0", "5", "9">>, <<"x", "3", "0">>, <<".", "3", "x">> }
StampShort ==
    { <<>>, <<".">>, <<"0", "1", "0", "1", "1", "2", "0">>,
      <<"0", "1", "0", "1", "1", "2", "0", "0", ".", "3">>,
      <<"2", ".", "0", "1", "0", "1", "1", "2", "0", "0">> }
Stamps ==
    StampShort \cup
    { p \o mo \o d \o h \o mi \o sfx :
        p \in StampPrefixes, mo \in StampMonths, d \in StampDays,
        h \in StampHours, mi \in StampMinutes, sfx \in StampSuffixes }
NowYears == {2023, 2100}

StampStart(stamps, years) ==
    /\ timestamp \in stamps
    /\ now_year \in years
    /\ ts_pc = "start"
    /\ ts_fields = NoFields
    /\ ts_result = TsNone

(* Lines 56-109: length test, slices, integer parses *)
StampParseFields ==
    /\ ts_pc = "start"
    /\ LET p == parse_fields(timestamp, now_year)
       IN  IF p.ok
           THEN ts_fields' = p.f /\ ts_pc' = "parsed" /\ ts_result' = ts_result
           ELSE ts_fields' = ts_fields /\ ts_pc' = "done"
                /\ ts_result' = TsErr(p.reason)
    /\ UNCHANGED <<timestamp, now_year>>
    /\ UNCHANGED <<argVars, mainVars>>

(* Lines 111-118: the date-time is constructed and converted *)
StampConstruct ==
    /\ ts_pc = "parsed"
    /\ \E lr \in LocalResults : ts_result' = construct(ts_fields, lr)
    /\ ts_pc' = "done"
    /\ UNCHANGED <<timestamp, now_year, ts_fields>>
    /\ UNCHANGED <<argVars, mainVars>>

StampNext == StampParseFields \/ StampConstruct


---------------------------------------------------------------------------
(* touch.rs: main and touch.  A DateTime<Local> is the instant it denotes, *)
(* [sec, nsec]: seconds since the epoch and nanoseconds within the second. *)

UTIME_OMIT == 1073741822
AT_SYMLINK_NOFOLLOW == 256

Instant(sec, nsec) == [sec |-> sec, nsec |-> nsec]
NoInstant == Instant(0, 0)

(* Days since 1970-01-01 of a proleptic Gregorian date *)
days_from_civil(y, m, d) ==
    LET y2 == IF m <= 2 THEN y - 1 ELSE y
        era == y2 \div 400
        yoe == y2 - era * 400
        mp == (m + 9) % 12
        doy == (153 * mp + 2) \div 5 + d - 1
        doe == yoe * 365 + yoe \div 4 - yoe \div 100 + doy
    IN  era * 146097 + doe - 719468

(* Local.from_local_datetime(&date).unwrap() on a host whose zone is UTC,  *)
(* read back by DateTime::timestamp() and timestamp_subsec_nanos()         *)
from_local_datetime(dt) ==
    Instant(days_from_civil(dt.year, dt.month, dt.day) * 86400
              + dt.hour * 3600 + dt.minute * 60 + dt.second, 0)

(* DateTime::parse_from_rfc3339 followed by with_timezone(&Local), on the  *)
(* date strings of the model                                               *)
GoodDate == "2020-01-01T00:00:00.25Z"
BadDate == "yesterday"
parse_from_rfc3339(date) ==
    IF date = GoodDate THEN Some(Instant(1577836800, 250000000)) ELSE None

(* Lines 136-148: change_only_access_time, change_only_modification_time *)
change_only(m) ==
    IF is_some(m.time)
    THEN CASE unwrap(m.time) \in {"access", "atime", "use"} ->
                [ok |-> TRUE, access |-> TRUE, modification |-> FALSE]
           [] unwrap(m.time) \in {"modify", "mtime"} ->
                [ok |-> TRUE, access |-> FALSE, modification |-> TRUE]
           [] OTHER ->
                [ok |-> FALSE, access |-> FALSE, modification |-> FALSE]
    ELSE [ok |-> TRUE, access |-> m.access, modification |-> m.modification]

NoChangeFlags ==
    [change_access_time |-> FALSE, change_modification_time |-> FALSE]

(* Lines 136-153 *)
flag_resolution(m) ==
    LET only == change_only(m)
    IN  IF ~only.ok
        THEN [ok |-> FALSE,
              err |-> <<"invalid argument to --time: ", unwrap(m.time)>>,
              flags |-> NoChangeFlags]
        ELSE IF only.access /\ only.modification
        THEN [ok |-> FALSE, err |-> <<"-a and -m are mutually exclusive">>,
              flags |-> NoChangeFlags]
        ELSE [ok |-> TRUE, err |-> <<>>,
              flags |-> [change_access_time |->
                             ~only.modification \/ only.access,
                         change_modification_time |->
                             ~only.access \/ only.modification]]

(* The file system.  A node is absent, a regular file or a symbolic link   *)
(* (the link of the model points at LinkTarget); it carries its own times. *)
Node(kind, atime, mtime) == [kind |-> kind, atime |-> atime, mtime |-> mtime]
Absent == Node("none", NoInstant, NoInstant)
LinkPath == "lnk"
LinkTarget == "f1"
RefPath == "ref"
FilePaths == {"f1", "f2", LinkPath}
Paths == FilePaths \cup {RefPath}

(* The node a path resolves to when symbolic links are followed *)
resolve(f, p) == IF f[p].kind = "link" THEN LinkTarget ELSE p
(* PathBuf::exists(): follows links; a dangling link does not exist *)
exists(f, p) == f[resolve(f, p)].kind = "file"
(* File::create on a path that does not exist: an empty regular file, at   *)
(* the referent when the path is a dangling link; stamped by the fs clock  *)
create(f, p, clock) ==
    [f EXCEPT ![resolve(f, p)] = Node("file", clock, clock)]

ResolvedErr(msg, seen) ==
    [tag |-> "Err", err |-> msg, accessed |-> NoInstant,
     modified |-> NoInstant, consulted |-> seen]
ResolvedOk(a, mo, seen) ==
    [tag |-> "Ok", err |-> <<>>, accessed |-> a, modified |-> mo,
     consulted |-> seen]
ResolvedPanic(seen) ==
    [tag |-> "Panic", err |-> <<>>, accessed |-> NoInstant,
     modified |-> NoInstant, consulted |-> seen]

(* Lines 158-162 *)
times_from_date(date) ==
    LET time == parse_from_rfc3339(date)
    IN  IF is_some(time)
        THEN ResolvedOk(unwrap(time), unwrap(time), {"date"})
        ELSE ResolvedErr(<<"error parsing ", date, " as an RFC 3339 date">>,
                         {"date"})

(* Lines 163-166 *)
times_from_timestamp(stamp, e) ==
    LET r == parse_timestamp(stamp, e.now_year, e.local_result)
    IN  CASE r.tag = "Ok" ->
               ResolvedOk(from_local_datetime(r.dt), from_local_datetime(r.dt),
                          {"timestamp"})
          [] r.tag = "Err" ->
               ResolvedErr(<<"error parsing ">> \o stamp
                               \o <<" as a timestamp: ", r.reason>>,
                           {"timestamp"})
          [] OTHER -> ResolvedPanic({"timestamp"})

(* Lines 167-185: the clock is read only for an attribute the file system  *)
(* does not report                                                         *)
times_from_reference(reference, f, e) ==
    IF ~exists(f, reference)
    THEN ResolvedErr(<<"referenced file ", reference, " does not exist">>,
                     {"reference"})
    ELSE IF ~e.stat_ok
    THEN ResolvedErr(<<"cannot stat referenced file ", reference>>,
                     {"reference"})
    ELSE ResolvedOk(
             IF e.atime_ok THEN f[resolve(f, reference)].atime ELSE e.now,
             IF e.mtime_ok THEN f[resolve(f, reference)].mtime ELSE e.now,
             {"reference"} \cup
                 (IF e.atime_ok /\ e.mtime_ok THEN {} ELSE {"now"}))

(* Lines 186-189 *)
times_from_now(e) == ResolvedOk(e.now, e.now, {"now"})

(* A plausible slip: the reference file is looked at before the stamp. *)
resolve_times_reference_first(m, f, e) ==
    IF is_some(m.date) THEN times_from_date(unwrap(m.date))
    ELSE IF is_some(m.reference)
    THEN times_from_reference(unwrap(m.reference), f, e)
    ELSE IF is_some(m.timestamp)
    THEN times_from_timestamp(unwrap(m.timestamp), e)
    ELSE times_from_now(e)

(* Lines 157-190 *)
resolve_times(m, f, e) ==
    IF is_some(m.date) THEN times_from_date(unwrap(m.date))
    ELSE IF is_some(m.timestamp)
    THEN times_from_timestamp(unwrap(m.timestamp), e)
    ELSE IF is_some(m.reference)
    THEN times_from_reference(unwrap(m.reference), f, e)
    ELSE times_from_now(e)

(* Lines 195-202 *)
TouchFlags(m, cf, t) ==
    [change_access_time |-> cf.change_access_time,
     change_modification_time |-> cf.change_modification_time,
     affect_symlinks |-> m.nodereference,
     no_creating_files |-> m.nocreate,
     accessed_time |-> t.accessed,
     modified_time |-> t.modified]

timespec(sec, nsec) == [tv_sec |-> sec, tv_nsec |-> nsec]

(* A plausible slip: the access time is always set. *)
atime_of_never_omits(flags) ==
    timespec(flags.accessed_time.sec, flags.accessed_time.nsec)

(* Lines 221-228 *)
atime_of(flags) ==
    timespec(flags.accessed_time.sec,
             IF ~flags.change_modification_time \/ flags.change_access_time
             THEN flags.accessed_time.nsec ELSE UTIME_OMIT)

(* Lines 229-236 *)
mtime_of(flags) ==
    timespec(flags.modified_time.sec,
             IF ~flags.change_access_time \/ flags.change_modification_time
             THEN flags.modified_time.nsec ELSE UTIME_OMIT)

(* Lines 238-242 *)
flag_of(flags) == IF flags.affect_symlinks THEN 0 ELSE AT_SYMLINK_NOFOLLOW

(* utimensat(AT_FDCWD, path, [atime, mtime], flag): the node it acts on,   *)
(* and the node after the call.  A tv_nsec of UTIME_OMIT leaves that time  *)
(* as it is.                                                               *)
utimensat_target(f, path, flag) ==
    IF flag = AT_SYMLINK_NOFOLLOW THEN path ELSE resolve(f, path)
utimensat(f, path, atime, mtime, flag) ==
    LET target == utimensat_target(f, path, flag)
        old == f[target]
    IN  [f EXCEPT ![target] =
            Node(old.kind,
                 IF atime.tv_nsec = UTIME_OMIT THEN old.atime
                 ELSE Instant(atime.tv_sec, atime.tv_nsec),
                 IF mtime.tv_nsec = UTIME_OMIT THEN old.mtime
                 ELSE Instant(mtime.tv_sec, mtime.tv_nsec))]

NoCall == [path |-> "", atime |-> timespec(0, 0), mtime |-> timespec(0, 0),
           flag |-> 0]

(* Lines 209-257.  create_ok and sys_ok are the host's answers to          *)
(* File::create and to the system call; the call also fails when the node  *)
(* it would act on is not there.                                           *)
touch(f, file_name, flags, clock, create_ok, sys_ok) ==
    IF ~exists(f, file_name) /\ flags.no_creating_files
    THEN [ok |-> TRUE, err |-> <<>>, fs |-> f, call |-> NoCall, called |-> FALSE]
    ELSE IF ~exists(f, file_name) /\ ~create_ok
    THEN [ok |-> FALSE, err |-> <<"io error creating ", file_name>>,
          fs |-> f, call |-> NoCall, called |-> FALSE]
    ELSE
    LET made == IF exists(f, file_name) THEN f
                ELSE create(f, file_name, clock)
        atime == atime_of(flags)
        mtime == mtime_of(flags)
        flag == flag_of(flags)
        call == [path |-> file_name, atime |-> atime, mtime |-> mtime,
                 flag |-> flag]
        ret_ok == sys_ok
                  /\ made[utimensat_target(made, file_name, flag)].kind # "none"
    IN  IF ret_ok
        THEN [ok |-> TRUE, err |-> <<>>,
              fs |-> utimensat(made, file_name, atime, mtime, flag),
              call |-> call, called |-> TRUE]
        ELSE [ok |-> FALSE, err |-> <<"could not set time(s) for ", file_name>>,
              fs |-> made, call |-> call, called |-> TRUE]

(* A plausible slip: the loop goes on to the next file after a failure. *)
after_touch_continues(ok, i, n) ==
    IF i + 1 < n THEN "touch" ELSE "done"

(* Lines 203-206: `touch(file, &flags)?` ends the run on the first Err;    *)
(* i files were done before this one, of n.                                *)
after_touch(ok, i, n) ==
    IF ok /\ i + 1 < n THEN "touch" ELSE "done"

---------------------------------------------------------------------------
(* main, step by step *)

Running == [tag |-> "Running", err |-> <<>>]
Ok == [tag |-> "Ok", err |-> <<>>]
Err(msg) == [tag |-> "Err", err |-> msg]
Panicked == [tag |-> "Panic", err |-> <<>>]

NoTimes == [accessed |-> NoInstant, modified |-> NoInstant]

MainStart(inputs, envs, systems) ==
    /\ matches \in inputs
    /\ env \in envs
    /\ fs \in systems
    /\ main_pc = "flags"
    /\ change_flags = NoChangeFlags
    /\ times = NoTimes
    /\ consulted = {}
    /\ file_i = 0
    /\ calls = <<>>
    /\ main_result = Running

(* Lines 136-153 *)
ResolveFlags ==
    /\ main_pc = "flags"
    /\ LET r == flag_resolution(matches)
       IN  /\ change_flags' = r.flags
           /\ main_pc' = IF r.ok THEN "times" ELSE "done"
           /\ main_result' = IF r.ok THEN main_result ELSE Err(r.err)
    /\ UNCHANGED <<matches, env, fs, times, consulted, file_i, calls>>
    /\ UNCHANGED <<argVars, stampVars>>

(* Lines 157-190 *)
ResolveTimes ==
    /\ main_pc = "times"
    /\ LET r == resolve_times(matches, fs, env)
       IN  /\ consulted' = r.consulted
           /\ times' = [accessed |-> r.accessed, modified |-> r.modified]
           /\ main_pc' = IF r.tag = "Ok" THEN "files" ELSE "done"
           /\ main_result' = CASE r.tag = "Ok" -> main_result
                               [] r.tag = "Err" -> Err(r.err)
                               [] OTHER -> Panicked
    /\ UNCHANGED <<matches, env, fs, change_flags, file_i, calls>>
    /\ UNCHANGED <<argVars, stampVars>>

(* Lines 191-202 *)
CollectFiles ==
    /\ main_pc = "files"
    /\ main_pc' = IF matches.FILE = <<>> THEN "done" ELSE "touch"
    /\ main_result' = IF matches.FILE = <<>>
                      THEN Err(<<"must specify at least one file">>)
                      ELSE main_result
    /\ UNCHANGED <<matches, env, fs, change_flags, times, consulted, file_i,
                   calls>>
    /\ UNCHANGED <<argVars, stampVars>>

(* Lines 203-206: one iteration of `for file in files`, the whole call of  *)
(* touch included                                                          *)
TouchFile ==
    /\ main_pc = "touch"
    /\ file_i < Len(matches.FILE)
    /\ \E create_ok \in BOOLEAN, sys_ok \in BOOLEAN :
         LET r == touch(fs, matches.FILE[file_i + 1],
                        TouchFlags(matches, change_flags, times),
                        env.clock, create_ok, sys_ok)
         IN  /\ fs' = r.fs
             /\ calls' = IF r.called THEN Append(calls, r.call) ELSE calls
             /\ file_i' = file_i + 1
             /\ main_pc' = after_touch(r.ok, file_i, Len(matches.FILE))
             /\ main_result' =
                    IF ~r.ok THEN Err(r.err)
                    ELSE IF main_pc' = "done" /\ main_result = Running THEN Ok
                    ELSE main_result
    /\ UNCHANGED <<matches, env, change_flags, times, consulted>>
    /\ UNCHANGED <<argVars, stampVars>>

MainNext == ResolveFlags \/ ResolveTimes \/ CollectFiles \/ TouchFile

---------------------------------------------------------------------------
(* The specifications.  Each runs one part of the program from a bounded   *)
(* set of inputs; the variables of the other parts stay as they are.       *)

MaxFiles == 2

OldFile == Node("file", Instant(1000, 1), Instant(2000, 2))
OldLink == Node("link", Instant(3000, 3), Instant(4000, 4))
RefFile == Node("file", Instant(5000, 5), Instant(6000, 6))

Host(local_result, stat_ok, atime_ok, mtime_ok) ==
    [now |-> Instant(1793923200, 500), now_year |-> 2026,
     clock |-> Instant(1793923201, 0), local_result |-> local_result,
     stat_ok |-> stat_ok, atime_ok |-> atime_ok, mtime_ok |-> mtime_ok]
PlainHost == Host("Single", TRUE, TRUE, TRUE)
Hosts == { Host(lr, s, a, m) :
             lr \in LocalResults, s \in BOOLEAN, a \in BOOLEAN, m \in BOOLEAN }

TimeWords == {"access", "atime", "use", "modify", "mtime", "ctime"}
GoodStamp == <<"2", "0", "2", "3", "0", "1", "0", "1", "1", "2", "0", "0">>
BadStamp == <<"9", "9", "9", "9", "9", "9", "9", "9">>

Systems(f1s, f2s, links, refs) ==
    { [p \in Paths |-> CASE p = "f1" -> a [] p = "f2" -> b
                         [] p = LinkPath -> l [] OTHER -> r] :
        a \in f1s, b \in f2s, l \in links, r \in refs }

Matches(accesses, modifications, words, cs, hs, dates, stamps, refs, lists) ==
    [access : accesses, modification : modifications, time : words,
     nocreate : cs, nodereference : hs, date : dates,
     timestamp : stamps, reference : refs, FILE : lists]

IdleMatches ==
    Matches({FALSE}, {FALSE}, {None}, {FALSE}, {FALSE}, {None}, {None},
            {None}, {<<>>})
EmptySystems == Systems({Absent}, {Absent}, {Absent}, {Absent})

(* Every combination of -a, -m and --time, with -c and -h *)
FlagsMatches ==
    Matches(BOOLEAN, BOOLEAN, {None} \cup {Some(w) : w \in TimeWords},
            BOOLEAN, BOOLEAN, {None}, {None}, {None}, {<<"f1">>, <<>>})

(* Every combination of a present or absent, good or bad --date, -t and    *)
(* --reference                                                             *)
ResolveMatches ==
    Matches(BOOLEAN, BOOLEAN, {None}, {FALSE}, {FALSE},
            {None, Some(GoodDate), Some(BadDate)},
            {None, Some(GoodStamp), Some(BadStamp)},
            {None, Some(RefPath)}, {<<"f1">>})

(* Every list of up to MaxFiles files *)
TouchMatches ==
    Matches(BOOLEAN, BOOLEAN, {None, Some("use"), Some("mtime")},
            BOOLEAN, BOOLEAN, {None}, {None}, {None, Some(RefPath)},
            SeqsUpTo(FilePaths, MaxFiles))
TouchSystems ==
    Systems({Absent, OldFile}, {Absent, OldFile}, {Absent, OldLink}, {RefFile})

ArgsInit ==
    /\ ArgsStart(SeqsUpTo(RawPool, MaxArgs))
    /\ StampStart({<<>>}, {2026})
    /\ MainStart(IdleMatches, {PlainHost}, EmptySystems)

StampInit ==
    /\ ArgsStart({<<>>})
    /\ StampStart(Stamps, NowYears)
    /\ MainStart(IdleMatches, {PlainHost}, EmptySystems)

FlagsInit ==
    /\ ArgsStart({<<>>})
    /\ StampStart({<<>>}, {2026})
    /\ MainStart(FlagsMatches, {PlainHost},
                 Systems({Absent}, {Absent}, {Absent}, {RefFile}))

ResolveInit ==
    /\ ArgsStart({<<>>})
    /\ StampStart({<<>>}, {2026})
    /\ MainStart(ResolveMatches, Hosts,
                 Systems({Absent}, {Absent}, {Absent}, {Absent, RefFile}))

TouchInit ==
    /\ ArgsStart({<<>>})
    /\ StampStart({<<>>}, {2026})
    /\ MainStart(TouchMatches, {PlainHost}, TouchSystems)

SpecArgs == ArgsInit /\ [][ArgsNext]_vars
SpecStamp == StampInit /\ [][StampNext]_vars
SpecFlags == FlagsInit /\ [][MainNext]_vars
SpecResolve == ResolveInit /\ [][MainNext]_vars
SpecTouch == TouchInit /\ [][MainNext]_vars

---------------------------------------------------------------------------
(* Properties of the lexer and the option interpreter *)

(* C1: once lex has consumed a raw argument that is exactly "--" (the      *)
(* first one is necessarily seen while not delimited), the delimited flag  *)
(* is true in every later state, that "--" was emitted as Positional("--"),*)
(* and each raw argument consumed after it was emitted as exactly one      *)
(* Positional token carrying the raw text verbatim: the tokens emitted     *)
(* since the delimiter are, one for one, the raw arguments since it.       *)
C1_DelimiterForcesPositional ==
    \A k \in 1..lex_i :
        (raw_args[k] = delimiter /\ \A j \in 1..(k - 1) : raw_args[j] # delimiter)
        => /\ delimited
           /\ Len(args) >= lex_i - k + 1
           /\ \A j \in k..lex_i :
                  args[Len(args) - lex_i + j] = Positional(raw_args[j])

(* C1 witness: lex finished on ["--", "--date=M", "-x"]; the two arguments *)
(* after the delimiter came out as single verbatim Positional tokens.      *)
C1_Witness ==
    /\ parse_pc = "parse"
    /\ Len(raw_args) = 3
    /\ raw_args[1] = delimiter
    /\ raw_args[2] = <<"-", "-", "d", "a", "t", "e", "=", "M">>
    /\ raw_args[3] = <<"-", "x">>
    /\ args = <<Positional(delimiter), Positional(raw_args[2]),
                Positional(raw_args[3])>>

(* The tokens after which parse reads a value, with the field that takes it *)
ValueOptionsOfCode ==
    { [tok |-> Short(opt_d), fld |-> "date"],
      [tok |-> Long(opt_date), fld |-> "date"],
      [tok |-> Short(opt_r), fld |-> "reference"],
      [tok |-> Long(opt_reference), fld |-> "reference"],
      [tok |-> Short(opt_t), fld |-> "timestamp"],
      [tok |-> Long(opt_time), fld |-> "time"] }

ValueOptionsOfClaim ==
    ValueOptionsOfCode \cup
    { [tok |-> Long(<<"t", "i", "m", "e", "s", "t", "a", "m", "p">>),
       fld |-> "timestamp"] }

(* A step of parse at a token of opts: the iterator moves past the next    *)
(* token; a Positional there is stored in the option's field and in no     *)
(* other (files included), and the loop resumes after it; anything else,   *)
(* or the end of the stream, fails with the missing-argument error.        *)
ValueOptionStep(opts) ==
    /\ cursor' >= cursor
    /\ \A o \in opts :
         (parse_pc = "parse" /\ cursor < Len(args) /\ args[cursor + 1] = o.tok)
         => IF cursor + 1 < Len(args) /\ args[cursor + 2].kind = "Positional"
            THEN /\ parse_pc' = "parse"
                 /\ cursor' = cursor + 2
                 /\ arg_struct' =
                        [arg_struct EXCEPT ![o.fld] = Some(args[cursor + 2].text)]
            ELSE /\ parse_pc' = "err"
                 /\ why' = missing_argument
                 /\ arg_struct' = arg_struct

(* C2 (as amended): for -d/--date, -r/--reference, -t and --time, parse    *)
(* advances one token; a Positional next token is stored in the option's   *)
(* field, never appended to files nor examined as a flag; a Short, a Long  *)
(* or the end of the stream fails with "An argument must be supplied".     *)
C2_ValueOptionsConsumeNext == [][ValueOptionStep(ValueOptionsOfCode)]_vars

(* C2 as claimed: the same, with --timestamp among the value options.      *)
C2_AsClaimed == [][ValueOptionStep(ValueOptionsOfClaim)]_vars

(* C2 witness: parse(["-d", "-", "f"]) returned with date = "-" and        *)
(* files = ["f"]: the value was neither filed nor read as a flag.          *)
C2_Witness ==
    /\ parse_pc = "ok"
    /\ raw_args = << <<"-", "d">>, <<"-">>, <<"f">> >>
    /\ arg_struct.date = Some(<<"-">>)
    /\ arg_struct.files = << <<"f">> >>

(* The options section 4.2 of the specification recognises *)
RecognizedShort == {opt_a, opt_c, opt_d, opt_h, opt_m, opt_r, opt_t}
RecognizedLong ==
    {opt_no_create, opt_date, opt_no_dereference, opt_reference, opt_time,
     opt_version, opt_help, <<"t", "i", "m", "e", "s", "t", "a", "m", "p">>}
Unrecognized(arg) ==
    \/ arg.kind = "Short" /\ arg.text \notin RecognizedShort
    \/ arg.kind = "Long" /\ arg.text \notin RecognizedLong

(* C3: when parse meets a Short or Long token that is not a recognised     *)
(* option it fails with "unknown argument <token>", the token rendered     *)
(* with its dashes; and parse never returns an Args record for a token     *)
(* stream that holds such a token.                                         *)
C3_UnknownOptionRejected ==
    [][ /\ (parse_pc = "parse" /\ cursor < Len(args)
              /\ Unrecognized(args[cursor + 1]))
           => (parse_pc' = "err"
                 /\ why' = <<"unknown argument ">> \o Display(args[cursor + 1]))
        /\ parse_pc' = "ok"
           => ~ \E i \in 1..Len(args) : Unrecognized(args[i])
      ]_vars

---------------------------------------------------------------------------
(* Properties of main and touch *)

TimeWordValid ==
    \/ matches.time = None
    \/ unwrap(matches.time) \in {"access", "atime", "use", "modify", "mtime"}
WantsAccess ==
    \/ matches.access
    \/ is_some(matches.time) /\ unwrap(matches.time) \in {"access", "atime", "use"}
WantsModification ==
    \/ matches.modification
    \/ is_some(matches.time) /\ unwrap(matches.time) \in {"modify", "mtime"}
(* The flags stage is over and did not fail *)
FlagsResolved ==
    main_pc \in {"times", "files", "touch"} \/ (main_pc = "done" /\ consulted # {})

(* C4: over every combination of -a, -m and a valid --time word: with -a   *)
(* and -m both set the resolution fails with "-a and -m are mutually       *)
(* exclusive"; with exactly one of access/modification requested (by its   *)
(* flag or by the --time word that stands for it) that change flag is true *)
(* and the other false; with neither requested both are true; and after    *)
(* any successful resolution at least one change flag is true.             *)
C4_FlagResolution ==
    (main_pc # "flags" /\ TimeWordValid) =>
        /\ (matches.access /\ matches.modification)
           => main_result = Err(<<"-a and -m are mutually exclusive">>)
        /\ (FlagsResolved /\ WantsAccess /\ ~WantsModification)
           => (change_flags.change_access_time
                 /\ ~change_flags.change_modification_time)
        /\ (FlagsResolved /\ WantsModification /\ ~WantsAccess)
           => (change_flags.change_modification_time
                 /\ ~change_flags.change_access_time)
        /\ (~WantsAccess /\ ~WantsModification)
           => (FlagsResolved /\ change_flags.change_access_time
                 /\ change_flags.change_modification_time)
        /\ FlagsResolved
           => (change_flags.change_access_time
                 \/ change_flags.change_modification_time)

(* The highest-precedence time source the options name *)
TopSource ==
    CASE is_some(matches.date) -> "date"
      [] ~is_some(matches.date) /\ is_some(matches.timestamp) -> "timestamp"
      [] ~is_some(matches.date) /\ ~is_some(matches.timestamp)
           /\ is_some(matches.reference) -> "reference"
      [] OTHER -> "now"
(* What that source alone yields on this host *)
TopSourceAlone ==
    CASE TopSource = "date" -> times_from_date(unwrap(matches.date))
      [] TopSource = "timestamp" ->
           times_from_timestamp(unwrap(matches.timestamp), env)
      [] TopSource = "reference" ->
           times_from_reference(unwrap(matches.reference), fs, env)
      [] OTHER -> times_from_now(env)

(* C5: once main has resolved the times, for every combination of present  *)
(* and absent --date, -t and --reference: of the three only the one of     *)
(* highest precedence (date > timestamp > reference) was parsed or read,   *)
(* and the pair, or the failure, is the one that source yields alone: no   *)
(* lower-precedence option changes the result or fails the run.            *)
C5_PrecedenceOfTimeSources ==
    consulted # {} =>
        /\ consulted \cap {"date", "timestamp", "reference"} \subseteq {TopSource}
        /\ consulted = TopSourceAlone.consulted
        /\ times = [accessed |-> TopSourceAlone.accessed,
                    modified |-> TopSourceAlone.modified]
        /\ TopSourceAlone.tag = "Err" => main_result = Err(TopSourceAlone.err)
        /\ TopSourceAlone.tag = "Panic" => main_result = Panicked
        /\ TopSourceAlone.tag = "Ok"
           => (main_pc \in {"files", "touch"} \/ file_i > 0
                 \/ matches.FILE = <<>>)

(* C5 witness: --date is good, -t is malformed and the --reference file is *)
(* missing; the times are the date's and the run went on.                  *)
C5_Witness ==
    /\ matches.date = Some(GoodDate)
    /\ matches.timestamp = Some(BadStamp)
    /\ matches.reference = Some(RefPath)
    /\ fs[RefPath] = Absent
    /\ consulted = {"date"}
    /\ times = [accessed |-> Instant(1577836800, 250000000),
                modified |-> Instant(1577836800, 250000000)]
    /\ main_pc = "touch"

(* The node the latest utimensat call acted on, by the kernel's rule *)
ActedOn(f, call) ==
    IF call.flag = AT_SYMLINK_NOFOLLOW \/ f[call.path].kind # "link"
    THEN call.path ELSE LinkTarget

C7_AbortOnFirstFailure ==
    [][ /\ main_result.tag = "Err" => fs' = fs /\ calls' = calls
        /\ main_pc = "touch" =>
             LET file == matches.FILE[file_i + 1]
             IN  /\ file_i' = file_i + 1
                 /\ \A p \in Paths :
                        p \notin {file, resolve(fs, file)} => fs'[p] = fs[p]
                 /\ Len(calls') <= Len(calls) + 1
                 /\ Len(calls') = Len(calls) + 1
                    => calls'[Len(calls')].path = file
                 /\ main_result'.tag = "Err" => main_pc' = "done"
      ]_vars

(* C7 witness: touch f1 f2 with neither file there and creation allowed;   *)
(* the touch of f1 failed, the run is over and f2 was never created.       *)
C7_Witness ==
    /\ main_pc = "done" /\ main_result.tag = "Err"
    /\ matches.FILE = <<"f1", "f2">>
    /\ ~matches.nocreate
    /\ file_i = 1
    /\ fs["f2"] = Absent

(* C9: when touch succeeds on a symbolic link whose referent exists, with  *)
(* -h the times of the referent stay as they were (the link itself is what *)
(* changes), and without -h the times of the link stay as they were (the   *)
(* referent is what changes).                                              *)
C9_NoDereferenceAffectsLink ==
    [][ ( /\ main_pc = "touch"
          /\ fs[matches.FILE[file_i + 1]].kind = "link"
          /\ fs[LinkTarget].kind = "file"
          /\ main_result'.tag # "Err" )
        => IF matches.nodereference
           THEN fs'[LinkTarget] = fs[LinkTarget]
           ELSE fs'[matches.FILE[file_i + 1]] = fs[matches.FILE[file_i + 1]]
      ]_vars

---------------------------------------------------------------------------
(* Properties of parse_timestamp *)

Stamp13 == <<"1", "3", "0", "1", "0", "1", "1", "2", ".", "0", "0">>

(* Every slice parses as an integer and the month is not one of 1..12 *)
MonthOutOfRange ==
    /\ parse_fields(timestamp, now_year).ok
    /\ parse_fields(timestamp, now_year).f.month \notin 1..12

(* C8 (as amended): parse_timestamp on an input whose fields all parse as  *)
(* integers and whose month is out of range, such as "13010112.00", fails  *)
(* with the reason "invalid date".                                         *)
C8_MonthOutOfRangeIsInvalidDate ==
    (ts_pc = "done" /\ (MonthOutOfRange \/ timestamp = Stamp13))
        => ts_result = TsErr("invalid date")

(* C8 as claimed: such an input fails with the reason "invalid month".     *)
C8_AsClaimed ==
    (ts_pc = "done" /\ (MonthOutOfRange \/ timestamp = Stamp13))
        => ts_result = TsErr("invalid month")

(* C8 witness: "13010112.00" has been parsed and rejected as a date.       *)
C8_Witness ==
    /\ ts_pc = "done"
    /\ timestamp = Stamp13
    /\ ts_result = TsErr("invalid date")

(* The integer a slice of digits, with an optional sign, denotes *)
Number(s) ==
    IF s # <<>> /\ s[1] = "-" THEN 0 - DecimalValue(Tail(s))
    ELSE IF s # <<>> /\ s[1] = "+" THEN DecimalValue(Tail(s))
    ELSE DecimalValue(s)
FieldAt(s, off) == SubSeq(s, off + 1, off + 2)
AfterDot(s) ==
    SubSeq(s, 1 + CHOOSE i \in 1..Len(s) : s[i] = "." /\ \A j \in 1..(i - 1) : s[j] # ".",
           Len(s))

(* C10: an input shorter than 8 characters (11 with a '.') fails with      *)
(* "timestamp is too short"; when parse_timestamp succeeds on an input     *)
(* with exactly 4, 2 or 0 extra characters the year is CC*100+YY, (current *)
(* year div 100)*100+YY, or the current year; month, day, hour and minute  *)
(* are the next four 2-character fields in that order; the seconds are the *)
(* digits after the '.' when there is one and 0 otherwise.                 *)
C10_FieldsByLength ==
    ts_pc = "done" =>
        LET n == Len(timestamp)
            dot == \E i \in 1..n : timestamp[i] = "."
            min == IF dot THEN 11 ELSE 8
            extra == n - min
            dt == ts_result.dt
        IN  /\ n < min => ts_result = TsErr("timestamp is too short")
            /\ (ts_result.tag = "Ok" /\ extra \in {0, 2, 4}) =>
                 /\ dt.year =
                      CASE extra = 4 -> Number(FieldAt(timestamp, 0)) * 100
                                          + Number(FieldAt(timestamp, 2))
                        [] extra = 2 -> (now_year \div 100) * 100
                                          + Number(FieldAt(timestamp, 0))
                        [] OTHER -> now_year
                 /\ dt.month = Number(FieldAt(timestamp, extra))
                 /\ dt.day = Number(FieldAt(timestamp, extra + 2))
                 /\ dt.hour = Number(FieldAt(timestamp, extra + 4))
                 /\ dt.minute = Number(FieldAt(timestamp, extra + 6))
                 /\ dt.second = IF dot THEN Number(AfterDot(timestamp)) ELSE 0

(* C10 witness: "202301011200" parsed to 2023-01-01 12:00:00.              *)
C10_Witness ==
    /\ ts_pc = "done"
    /\ timestamp = GoodStamp
    /\ ts_result = TsOk([year |-> 2023, month |-> 1, day |-> 1,
                         hour |-> 12, minute |-> 0, second |-> 0])

===========================================================================
